---- MODULE Spec2Model ----
(***************************************************************************)
(* A model of package memkv (store.go): an in-memory key/value store whose *)
(* keys are path-like strings, with exact lookup, glob retrieval and       *)
(* directory-style listing.                                                *)
(*                                                                         *)
(* Strings that the code inspects byte by byte (keys, paths, patterns) are *)
(* sequences of one-character strings; values are opaque TLA+ strings.     *)
(***************************************************************************)
EXTENDS Integers, Sequences, FiniteSets, TLC

\* ------------------------------------------------------------------------
\* Bounds

\* longest key that is ever stored
MaxKeyLen == 5
\* largest number of entries the map holds
MaxEntries == 3
\* number of goroutines sharing one Store value
NumProcs == 2

\* ------------------------------------------------------------------------
\* Strings

\* byte value of a character: sort.Strings and KVPairs.Less compare bytes
Code(c) ==
    CASE c = "*" -> 42
      [] c = "-" -> 45
      [] c = "/" -> 47
      [] c = "?" -> 63
      [] c = "[" -> 91
      [] c = "\\" -> 92
      [] c = "]" -> 93
      [] c = "^" -> 94
      [] c = "a" -> 97
      [] c = "b" -> 98
      [] c = "c" -> 99
      [] c = "d" -> 100

\* s[n:], n counted in bytes
Drop(s, n) == SubSeq(s, n + 1, Len(s))

\* strings.HasPrefix
HasPrefix(s, prefix) ==
    /\ Len(s) >= Len(prefix)
    /\ SubSeq(s, 1, Len(prefix)) = prefix

\* strings.TrimPrefix
TrimPrefix(s, prefix) ==
    IF HasPrefix(s, prefix) THEN Drop(s, Len(prefix)) ELSE s

\* strings.Contains(s, c) for a one-byte c
Contains(s, c) == \E i \in 1..Len(s) : s[i] = c

\* position of the first c in s, 0 when there is none
RECURSIVE IndexFrom(_, _, _)
IndexFrom(s, c, i) ==
    IF i > Len(s) THEN 0
    ELSE IF s[i] = c THEN i
    ELSE IndexFrom(s, c, i + 1)

\* strings.SplitN(s, "/", 2): one item when s holds no "/", else two
SplitN2(s) ==
    LET i == IndexFrom(s, "/", 1)
    IN  IF i = 0 THEN << s >>
        ELSE << SubSeq(s, 1, i - 1), Drop(s, i) >>

\* byte-wise lexicographic a < b, the order of Go's string comparison
RECURSIVE StrLess(_, _)
StrLess(a, b) ==
    IF b = << >> THEN FALSE
    ELSE IF a = << >> THEN TRUE
    ELSE IF Head(a) # Head(b) THEN Code(Head(a)) < Code(Head(b))
    ELSE StrLess(Tail(a), Tail(b))

\* ------------------------------------------------------------------------
\* filepath.Match, as called by GetAll (Unix build: "/" separates, "\\"
\* escapes).  A malformed pattern is reported for every name, also after a
\* mismatch.

ErrBadPattern == "ErrBadPattern"
nil == "nil"

\* scanChunk: the index at which the chunk starting at pattern[1] ends
RECURSIVE ChunkEnd(_, _, _)
ChunkEnd(pattern, i, inrange) ==
    IF i > Len(pattern) THEN Len(pattern)
    ELSE IF pattern[i] = "\\" THEN ChunkEnd(pattern, i + 2, inrange)
    ELSE IF pattern[i] = "[" THEN ChunkEnd(pattern, i + 1, TRUE)
    ELSE IF pattern[i] = "]" THEN ChunkEnd(pattern, i + 1, FALSE)
    ELSE IF pattern[i] = "*" /\ ~inrange THEN i - 1
    ELSE ChunkEnd(pattern, i + 1, inrange)

RECURSIVE StripStars(_)
StripStars(pattern) ==
    IF pattern # << >> /\ Head(pattern) = "*"
    THEN StripStars(Tail(pattern))
    ELSE pattern

\* scanChunk: leading stars, the chunk up to the next star, the rest
scanChunk(pattern) ==
    LET p == StripStars(pattern)
        e == IF ChunkEnd(p, 1, FALSE) > Len(p) THEN Len(p)
             ELSE ChunkEnd(p, 1, FALSE)
    IN  [star  |-> Len(p) < Len(pattern),
         chunk |-> SubSeq(p, 1, e),
         rest  |-> Drop(p, e)]

\* getEsc: one possibly escaped character of a character class
getEsc(chunk) ==
    IF chunk = << >> \/ Head(chunk) = "-" \/ Head(chunk) = "]"
    THEN [r |-> 0, nchunk |-> chunk, err |-> ErrBadPattern]
    ELSE LET c == IF Head(chunk) = "\\" THEN Tail(chunk) ELSE chunk
         IN  IF c = << >>
             THEN [r |-> 0, nchunk |-> c, err |-> ErrBadPattern]
             ELSE [r      |-> Code(Head(c)),
                   nchunk |-> Tail(c),
                   err    |-> IF Tail(c) = << >> THEN ErrBadPattern
                              ELSE nil]

\* matchChunk: the loop over the ranges of one character class; r is the
\* byte of the name under test, 0 once the match has failed
RECURSIVE ParseRanges(_, _, _, _)
ParseRanges(chunk, r, match, nrange) ==
    IF chunk # << >> /\ Head(chunk) = "]" /\ nrange > 0
    THEN [chunk |-> Tail(chunk), match |-> match, err |-> nil]
    ELSE LET lo == getEsc(chunk)
         IN  IF lo.err # nil
             THEN [chunk |-> << >>, match |-> FALSE, err |-> lo.err]
             ELSE LET ranged == Head(lo.nchunk) = "-"
                      hi     == IF ranged THEN getEsc(Tail(lo.nchunk))
                                ELSE lo
                  IN  IF hi.err # nil
                      THEN [chunk |-> << >>, match |-> FALSE,
                            err |-> hi.err]
                      ELSE ParseRanges(hi.nchunk, r,
                                       match \/ (lo.r <= r /\ r <= hi.r),
                                       nrange + 1)

\* matchChunk: match chunk, which holds no star outside a class, against a
\* prefix of s; after a failure the chunk is still parsed to the end
RECURSIVE matchChunkLoop(_, _, _)
matchChunkLoop(chunk, s, wasFailed) ==
    IF chunk = << >>
    THEN IF wasFailed THEN [rest |-> << >>, ok |-> FALSE, err |-> nil]
         ELSE [rest |-> s, ok |-> TRUE, err |-> nil]
    ELSE
    LET failed == wasFailed \/ s = << >>
        s1     == IF failed THEN s ELSE Tail(s)
    IN  CASE Head(chunk) = "[" ->
               LET r       == IF failed THEN 0 ELSE Code(Head(s))
                   negated == Len(chunk) > 1 /\ chunk[2] = "^"
                   body    == IF negated THEN Drop(chunk, 2) ELSE Tail(chunk)
                   cls     == ParseRanges(body, r, FALSE, 0)
               IN  IF cls.err # nil
                   THEN [rest |-> << >>, ok |-> FALSE, err |-> cls.err]
                   ELSE matchChunkLoop(cls.chunk, s1,
                                       failed \/ (cls.match = negated))
          [] Head(chunk) = "?" ->
               matchChunkLoop(Tail(chunk), s1,
                              failed \/ Head(s) = "/")
          [] Head(chunk) = "\\" ->
               IF Tail(chunk) = << >>
               THEN [rest |-> << >>, ok |-> FALSE, err |-> ErrBadPattern]
               ELSE matchChunkLoop(Drop(chunk, 2), s1,
                                   failed \/ chunk[2] # Head(s))
          [] OTHER ->
               matchChunkLoop(Tail(chunk), s1,
                              failed \/ Head(chunk) # Head(s))

matchChunk(chunk, s) == matchChunkLoop(chunk, s, FALSE)

\* Match: the check, before a mismatch is reported, that the remainder of
\* the pattern is well formed
RECURSIVE CheckRest(_)
CheckRest(pattern) ==
    IF pattern = << >> THEN [matched |-> FALSE, err |-> nil]
    ELSE LET sc == scanChunk(pattern)
             mc == matchChunk(sc.chunk, << >>)
         IN  IF mc.err # nil THEN [matched |-> FALSE, err |-> mc.err]
             ELSE CheckRest(sc.rest)

RECURSIVE Match(_, _)
RECURSIVE StarSkip(_, _, _, _)

\* Match: after a star, try the chunk at each later position of the
\* current path segment (i bytes of name are skipped already)
StarSkip(chunk, rest, name, i) ==
    IF i >= Len(name) \/ name[i + 1] = "/" THEN CheckRest(rest)
    ELSE LET mc == matchChunk(chunk, Drop(name, i + 1))
         IN  IF mc.ok
             THEN IF rest = << >> /\ mc.rest # << >>
                  THEN StarSkip(chunk, rest, name, i + 1)
                  ELSE Match(rest, mc.rest)
             ELSE IF mc.err # nil THEN [matched |-> FALSE, err |-> mc.err]
             ELSE StarSkip(chunk, rest, name, i + 1)

\* filepath.Match(pattern, name)
Match(pattern, name) ==
    IF pattern = << >> THEN [matched |-> name = << >>, err |-> nil]
    ELSE
    LET sc == scanChunk(pattern)
        mc == matchChunk(sc.chunk, name)
    IN  IF sc.star /\ sc.chunk = << >>
        THEN [matched |-> ~Contains(name, "/"), err |-> nil]
        ELSE IF mc.ok /\ (mc.rest = << >> \/ sc.rest # << >>)
        THEN Match(sc.rest, mc.rest)
        ELSE IF mc.err # nil THEN [matched |-> FALSE, err |-> mc.err]
        ELSE IF sc.star THEN StarSkip(sc.chunk, sc.rest, name, 0)
        ELSE CheckRest(sc.rest)

\* ------------------------------------------------------------------------
\* The universe of inputs

\* the path /a
dirA == << "/", "a" >>

\* keys that callers store: a small tree under /a, and /ab/c beside it
KeyUniverse ==
    { dirA,
      dirA \o << "/", "b" >>,
      dirA \o << "/", "c" >>,
      << "/", "a", "b", "/", "c" >>,
      dirA \o << "/", "b", "/", "c" >> }

Keys == { k \in KeyUniverse : Len(k) <= MaxKeyLen }

Vals == { "1", "2" }

\* paths handed to List and ListDir
Paths == { << >>, dirA, dirA \o << "/", "b" >>, << "/", "b" >> }

\* patterns handed to GetAll and GetAllValues
Patterns ==
    { << "[" >>,
      dirA \o << "/", "[", "b" >>,
      << "*" >>,
      dirA \o << "*", "/", "*" >>,
      dirA \o << "/", "[", "b", "-", "c", "]" >>,
      dirA \o << "/", "b", "/", "?" >> }

\* ------------------------------------------------------------------------
\* Values

\* type KVPair struct { Key, Value string }
KVPair(key, value) == [Key |-> key, Value |-> value]

\* KVPair{}
ZeroKVPair == KVPair(<< >>, "")

ErrNotExist == "ErrNotExist"
ErrNoMatch == "ErrNoMatch"
\* a run-time panic leaving the call (slice bounds out of range)
Panic == "panic"

\* KVPairs.Less: by Key, byte-wise ascending
Less(x, y) == StrLess(x.Key, y.Key)

\* the orders in which a range over a map with key set S may visit it
RECURSIVE Orders(_)
Orders(S) ==
    IF S = {} THEN { << >> }
    ELSE UNION { { << x >> \o f : f \in Orders(S \ {x}) } : x \in S }

\* the records a range over the map mm visits, in the order f of its keys
Visit(mm, f) == [i \in 1..Len(f) |-> mm[f[i]]]

RECURSIVE InsertKV(_, _)
InsertKV(ks, kv) ==
    IF ks = << >> THEN << kv >>
    ELSE IF Less(kv, Head(ks)) THEN << kv >> \o ks
    ELSE << Head(ks) >> \o InsertKV(Tail(ks), kv)

\* SortKVPairs, were the matches left in the order of the range
SortKVPairsSkipped(ks) == ks

\* sort.Sort(ks)
RECURSIVE SortKVPairs(_)
SortKVPairs(ks) ==
    IF ks = << >> THEN << >>
    ELSE InsertKV(SortKVPairs(Tail(ks)), Head(ks))

RECURSIVE InsertStr(_, _)
InsertStr(vs, v) ==
    IF vs = << >> THEN << v >>
    ELSE IF StrLess(v, Head(vs)) THEN << v >> \o vs
    ELSE << Head(vs) >> \o InsertStr(Tail(vs), v)

\* SortStrings, were the segments left in the order of the range
SortStringsSkipped(vs) == vs

\* sort.Strings(vs)
RECURSIVE SortStrings(_)
SortStrings(vs) ==
    IF vs = << >> THEN << >>
    ELSE InsertStr(SortStrings(Tail(vs)), Head(vs))

\* what a call hands back; the fields a call does not return keep their
\* zero values
Ret(kv, str, ks, vs, isNil, err) ==
    [kv |-> kv, str |-> str, ks |-> ks, vs |-> vs, isNil |-> isNil,
     err |-> err]

NoRet == Ret(ZeroKVPair, "", << >>, << >>, FALSE, nil)

\* ------------------------------------------------------------------------
\* The operations on the map, as functions

\* SetMap, were the record stored without its Key
SetMapNoKey(mm, key, value) ==
    [k \in DOMAIN mm \cup {key} |->
        IF k = key THEN KVPair(<< >>, value) ELSE mm[k]]

\* SetMap, were the map replaced by one that holds the new entry only
SetMapAlone(mm, key, value) == [k \in {key} |-> KVPair(key, value)]

\* SetMap, were an entry that exists left as it is
SetMapKeepsOld(mm, key, value) ==
    [k \in DOMAIN mm \cup {key} |->
        IF k \in DOMAIN mm THEN mm[k] ELSE KVPair(key, value)]

\* s.m[key] = KVPair{key, value}
SetMap(mm, key, value) ==
    [k \in DOMAIN mm \cup {key} |->
        IF k = key THEN KVPair(key, value) ELSE mm[k]]

\* DelMap, were the map emptied when it holds no entry for key
DelMapAbsentClears(mm, key) ==
    IF key \in DOMAIN mm THEN [k \in DOMAIN mm \ {key} |-> mm[k]]
    ELSE << >>

\* DelMap, were the entry not removed
DelMapKeeps(mm, key) == mm

\* delete(s.m, key)
DelMap(mm, key) == [k \in DOMAIN mm \ {key} |-> mm[k]]

\* Get, after the lock: kv, ok := s.m[key] and the two returns
GetFrom(mm, key) ==
    IF key \in DOMAIN mm
    THEN Ret(mm[key], "", << >>, << >>, FALSE, nil)
    ELSE Ret(ZeroKVPair, "", << >>, << >>, FALSE, ErrNotExist)

\* GetValueFrom, were the error of Get dropped
GetValueFromNoErr(got) ==
    Ret(ZeroKVPair, got.kv.Value, << >>, << >>, FALSE, nil)

\* GetValue, given what Get returned
GetValueFrom(got) ==
    IF got.err # nil
    THEN Ret(ZeroKVPair, "", << >>, << >>, FALSE, got.err)
    ELSE Ret(ZeroKVPair, got.kv.Value, << >>, << >>, FALSE, nil)

\* GetAllLoop, were the test len(ks) == 0 left out
RECURSIVE GetAllLoopNoTest(_, _, _, _)
GetAllLoopNoTest(kvs, i, pattern, ks) ==
    IF i > Len(kvs)
    THEN Ret(ZeroKVPair, "", SortKVPairs(ks), << >>, FALSE, nil)
    ELSE LET r == Match(pattern, kvs[i].Key)
         IN  IF r.err # nil
             THEN Ret(ZeroKVPair, "", << >>, << >>, TRUE, r.err)
             ELSE GetAllLoopNoTest(kvs, i + 1, pattern,
                                   IF r.matched THEN Append(ks, kvs[i])
                                   ELSE ks)

\* GetAll: the loop over the visited records kvs from position i on, ks
\* being the matches appended so far, and the returns after it
RECURSIVE GetAllLoop(_, _, _, _)
GetAllLoop(kvs, i, pattern, ks) ==
    IF i > Len(kvs)
    THEN IF Len(ks) = 0
         THEN Ret(ZeroKVPair, "", << >>, << >>, TRUE, ErrNoMatch)
         ELSE Ret(ZeroKVPair, "", SortKVPairs(ks), << >>, FALSE, nil)
    ELSE LET r == Match(pattern, kvs[i].Key)
         IN  IF r.err # nil
             THEN Ret(ZeroKVPair, "", << >>, << >>, TRUE, r.err)
             ELSE GetAllLoop(kvs, i + 1, pattern,
                             IF r.matched THEN Append(ks, kvs[i]) ELSE ks)

\* GetAll over the records kvs that the range visits
GetAllFrom(kvs, pattern) == GetAllLoop(kvs, 1, pattern, << >>)

\* GetAllValuesFrom, were ks and err of GetAll handed on as they are
GetAllValuesFromNil(got) ==
    IF got.err # nil
    THEN Ret(ZeroKVPair, "", << >>, << >>, TRUE, got.err)
    ELSE Ret(ZeroKVPair, "",  << >>,
             [i \in 1..Len(got.ks) |-> got.ks[i].Value], FALSE, nil)

\* GetAllValues, given what GetAll returned
GetAllValuesFrom(got) ==
    IF got.err # nil
    THEN Ret(ZeroKVPair, "", << >>, << >>, FALSE, got.err)
    ELSE Ret(ZeroKVPair, "",  << >>,
             [i \in 1..Len(got.ks) |-> got.ks[i].Value], FALSE, nil)

\* List and ListDir: strippedKey[1:] panics when nothing follows the prefix
SlicePanics(kvs, path) ==
    \E i \in 1..Len(kvs) :
        /\ HasPrefix(kvs[i].Key, path)
        /\ Len(TrimPrefix(kvs[i].Key, path)) < 1

\* Items, were the byte after the prefix not skipped
ItemsNoSkip(key, path) == SplitN2(TrimPrefix(key, path))

\* strings.SplitN(strippedKey[1:], "/", 2)
Items(key, path) == SplitN2(Drop(TrimPrefix(key, path), 1))

\* List: the key set of the local map m after the first loop
ListSet(kvs, path) ==
    { Items(kvs[i].Key, path)[1] :
        i \in { j \in 1..Len(kvs) : HasPrefix(kvs[j].Key, path) } }

\* ListDir: the key set of the local map m after the first loop
ListDirSet(kvs, path) ==
    { Items(kvs[i].Key, path)[1] :
        i \in { j \in 1..Len(kvs) :
                  /\ HasPrefix(kvs[j].Key, path)
                  /\ Len(Items(kvs[j].Key, path)) >= 2 } }

\* List and ListDir: the second loop has appended the keys of the local
\* map in the order vs; sort and return
ListFrom(vs) == Ret(ZeroKVPair, "", << >>, SortStrings(vs), FALSE, nil)

\* the call panicked: the deferred RUnlock ran, nothing is returned
Panicked == Ret(ZeroKVPair, "", << >>, << >>, TRUE, Panic)

\* ------------------------------------------------------------------------
\* State

VARIABLES
    m,        \* s.m, the map every copy of the Store value shares
    crashed,  \* a panic or a fatal run-time error has ended the process
    op,       \* one caller at a time: the call made last
    ret,      \* one caller at a time: what that call returned
    last,     \* one caller at a time: per key, the value of the last Set
              \* on it, "none" when there was none or a Del followed it
    lastDel,  \* one caller at a time: the key of the latest Del, "none"
              \* when there was none or a Set on that key followed it
    hit,      \* one caller at a time: the call made last was a Set or Del
              \* that found an entry for its key
    pc,       \* goroutines: where each goroutine is in its call
    call,     \* goroutines: the call each goroutine is making
    mu,       \* goroutines: the RWMutex of each call's receiver copy
    seen,     \* goroutines: the records each call has read from the map
    todo,     \* goroutines: the keys each call's range has yet to visit
    done,     \* goroutines: the keys each call's range has visited
    res,      \* goroutines: what each goroutine's last call returned
    snaps     \* goroutines: the maps that have existed since the
              \* invocation of each goroutine's GetAll, List or ListDir,
              \* when the call is tracked

vars == << m, crashed, op, ret, last, lastDel, hit, pc, call, mu, seen, todo,
          done, res, snaps >>

seqVars == << op, ret, last, lastDel, hit >>
goVars == << pc, call, mu, seen, todo, done, res, snaps >>

Procs == 1..NumProcs

\* a call: its name, its key, path or pattern, and its value
Call(name, arg, val) == [name |-> name, arg |-> arg, val |-> val]

NoCall == Call("New", << >>, "")

\* sync.RWMutex: the writer holding it and the number of readers
RWMutex(w, r) == [w |-> w, r |-> r]

\* New: an empty map; the zero RWMutex is unlocked
Init ==
    /\ m = << >>
    /\ crashed = FALSE
    /\ op = NoCall
    /\ ret = NoRet
    /\ last = [k \in Keys |-> "none"]
    /\ lastDel = << "none" >>
    /\ hit = FALSE
    /\ pc = [p \in Procs |-> "idle"]
    /\ call = [p \in Procs |-> NoCall]
    /\ mu = [p \in Procs |-> RWMutex(FALSE, 0)]
    /\ seen = [p \in Procs |-> << >>]
    /\ todo = [p \in Procs |-> {}]
    /\ done = [p \in Procs |-> {}]
    /\ res = [p \in Procs |-> NoRet]
    /\ snaps = [p \in Procs |-> {}]

\* ------------------------------------------------------------------------
\* One caller at a time: every call runs from its first line to its return
\* before the next call starts

Set(key, value) ==
    /\ ~crashed
    /\ key \in DOMAIN m \/ Cardinality(DOMAIN m) < MaxEntries
    /\ m' = SetMap(m, key, value)
    /\ op' = Call("Set", key, value)
    /\ ret' = NoRet
    /\ last' = [last EXCEPT ![key] = value]
    /\ lastDel' = IF lastDel = key THEN << "none" >> ELSE lastDel
    /\ hit' = (key \in DOMAIN m)
    /\ UNCHANGED << crashed, goVars >>

Del(key) ==
    /\ ~crashed
    /\ m' = DelMap(m, key)
    /\ op' = Call("Del", key, "")
    /\ ret' = NoRet
    /\ last' = [last EXCEPT ![key] = "none"]
    /\ lastDel' = key
    /\ hit' = (key \in DOMAIN m)
    /\ UNCHANGED << crashed, goVars >>

\* Get, were the entry it reads removed from the map
GetEvicts(key) ==
    /\ ~crashed
    /\ op' = Call("Get", key, "")
    /\ ret' = GetFrom(m, key)
    /\ m' = DelMap(m, key)
    /\ hit' = FALSE
    /\ UNCHANGED << crashed, last, lastDel, goVars >>

Get(key) ==
    /\ ~crashed
    /\ op' = Call("Get", key, "")
    /\ ret' = GetFrom(m, key)
    /\ hit' = FALSE
    /\ UNCHANGED << m, crashed, last, lastDel, goVars >>

GetValue(key) ==
    /\ ~crashed
    /\ op' = Call("GetValue", key, "")
    /\ ret' = GetValueFrom(GetFrom(m, key))
    /\ hit' = FALSE
    /\ UNCHANGED << m, crashed, last, lastDel, goVars >>

GetAll(pattern) ==
    /\ ~crashed
    /\ op' = Call("GetAll", pattern, "")
    /\ ret' \in { GetAllFrom(Visit(m, f), pattern) : f \in Orders(DOMAIN m) }
    /\ hit' = FALSE
    /\ UNCHANGED << m, crashed, last, lastDel, goVars >>

GetAllValues(pattern) ==
    /\ ~crashed
    /\ op' = Call("GetAllValues", pattern, "")
    /\ ret' \in { GetAllValuesFrom(GetAllFrom(Visit(m, f), pattern)) :
                    f \in Orders(DOMAIN m) }
    /\ hit' = FALSE
    /\ UNCHANGED << m, crashed, last, lastDel, goVars >>

List(path) ==
    /\ ~crashed
    /\ op' = Call("List", path, "")
    /\ ret' \in UNION { IF SlicePanics(Visit(m, f), path)
                        THEN { Panicked }
                        ELSE { ListFrom(vs) :
                                 vs \in Orders(ListSet(Visit(m, f), path)) } :
                        f \in Orders(DOMAIN m) }
    /\ crashed' = (ret'.err = Panic)
    /\ hit' = FALSE
    /\ UNCHANGED << m, last, lastDel, goVars >>

ListDir(path) ==
    /\ ~crashed
    /\ op' = Call("ListDir", path, "")
    /\ ret' \in UNION { IF SlicePanics(Visit(m, f), path)
                        THEN { Panicked }
                        ELSE { ListFrom(vs) :
                                 vs \in Orders(ListDirSet(Visit(m, f),
                                                          path)) } :
                        f \in Orders(DOMAIN m) }
    /\ crashed' = (ret'.err = Panic)
    /\ hit' = FALSE
    /\ UNCHANGED << m, last, lastDel, goVars >>

Next ==
    \/ \E key \in Keys, value \in Vals : Set(key, value)
    \/ \E key \in Keys : Del(key)
    \/ \E key \in Keys : Get(key)
    \/ \E key \in Keys : GetValue(key)
    \/ \E pattern \in Patterns : GetAll(pattern)
    \/ \E pattern \in Patterns : GetAllValues(pattern)
    \/ \E path \in Paths : List(path)
    \/ \E path \in Paths : ListDir(path)

Spec == Init /\ [][Next]_vars

\* ------------------------------------------------------------------------
\* Claims about one caller at a time

\* the pattern is syntactically malformed
Malformed(pattern) == CheckRest(pattern).err # nil

\* the stored keys that the pattern matches
Matching(pattern) == { k \in DOMAIN m : Match(pattern, k).matched }

\* the elements of a sequence
Range(seq) == { seq[i] : i \in 1..Len(seq) }

\* C2: once Set(k, v) has returned and no other Set or Del on k has
\* intervened, Get(k) returns the record {k, v} and no error.
C2_GetAfterSet ==
    op.name = "Get" /\ last[op.arg] # "none" =>
        /\ ret.err = nil
        /\ ret.kv = KVPair(op.arg, last[op.arg])

\* Get(k) has returned the value "2" that a Set put over an entry's "1"
\* or into a new entry, with other entries in the map
C2_Witness ==
    /\ op.name = "Get"
    /\ last[op.arg] = "2"
    /\ ret.kv.Value = "2"
    /\ Cardinality(DOMAIN m) = MaxEntries

\* C3: once Del(k) has returned and no Set on k has intervened, and also
\* when k was never set, Get(k) fails with ErrNotExist.
C3_GetAfterDel ==
    op.name = "Get" /\ last[op.arg] = "none" =>
        /\ ret.err = ErrNotExist
        /\ ret.kv = ZeroKVPair

\* Get(k) has failed after the latest Del, which was Del(k), in a store
\* that holds other keys
C3_Witness ==
    /\ op.name = "Get"
    /\ lastDel = op.arg
    /\ ret.err = ErrNotExist
    /\ m # << >>

\* C4: List(path) and ListDir(path) terminate normally and return a
\* sequence in every store state, also when a stored key equals path.
C4_ListNeverFails ==
    op.name \in { "List", "ListDir" } => ret.err = nil /\ ~crashed

\* C5: GetAll(pattern) fails with the invalid-pattern error whenever the
\* pattern is malformed, in every store state including the empty store.
C5_BadPatternReported ==
    op.name = "GetAll" /\ Malformed(op.arg) => ret.err = ErrBadPattern

\* C6: for a well-formed pattern a successful GetAll(pattern) returns
\* exactly the records whose key matches, strictly ascending by key,
\* whatever order the range over the map took.
C6_GetAllExactSorted ==
    op.name = "GetAll" /\ ~Malformed(op.arg) /\ ret.err = nil =>
        /\ Range(ret.ks) = { m[k] : k \in Matching(op.arg) }
        /\ \A i, j \in 1..Len(ret.ks) :
              i < j => StrLess(ret.ks[i].Key, ret.ks[j].Key)

\* GetAll has returned three records
C6_Witness ==
    /\ op.name = "GetAll"
    /\ ret.err = nil
    /\ Len(ret.ks) = 3

\* C7: for a well-formed pattern GetAll(pattern) fails with ErrNoMatch if
\* and only if no stored key matches, and never returns an empty sequence
\* with a nil error.
C7_NoMatchIffNone ==
    op.name = "GetAll" /\ ~Malformed(op.arg) =>
        /\ ret.err = ErrNoMatch <=> Matching(op.arg) = {}
        /\ ~(ret.err = nil /\ ret.ks = << >>)

\* GetAll has failed with ErrNoMatch on a store that is not empty
C7_Witness ==
    /\ op.name = "GetAll"
    /\ ~Malformed(op.arg)
    /\ ret.err = ErrNoMatch
    /\ m # << >>

\* the first segment of key k after the prefix path and one more byte
FirstSegment(k, path) == SplitN2(Drop(Drop(k, Len(path)), 1))[1]

\* C10: List(path) returns exactly the first segments of the stored keys
\* that have path as a prefix, without duplicates, in ascending order.
C10_ListExact ==
    op.name = "List" =>
        /\ ret.err = nil
        /\ Range(ret.vs) =
              { FirstSegment(k, op.arg) :
                  k \in { j \in DOMAIN m : HasPrefix(j, op.arg) } }
        /\ \A i, j \in 1..Len(ret.vs) :
              i < j => StrLess(ret.vs[i], ret.vs[j])

\* sequence vs is strictly ascending in byte order
Ascending(vs) ==
    \A i, j \in 1..Len(vs) : i < j => StrLess(vs[i], vs[j])

\* what is left of key k after the prefix path and one more byte
Remainder(k, path) == Drop(Drop(k, Len(path)), 1)

\* C11: ListDir(path) returns exactly the first segments that List would
\* compute, restricted to the keys whose remainder, after the prefix path
\* and one further byte, holds a further "/".
C11_ListDirExact ==
    op.name = "ListDir" =>
        /\ ret.err = nil
        /\ Range(ret.vs) =
              { FirstSegment(k, op.arg) :
                  k \in { j \in DOMAIN m :
                            /\ HasPrefix(j, op.arg)
                            /\ Contains(Remainder(j, op.arg), "/") } }
        /\ Ascending(ret.vs)

\* what GetAll(pattern) may return on the map mm
GetAllReturns(mm, pattern) ==
    { GetAllFrom(Visit(mm, f), pattern) : f \in Orders(DOMAIN mm) }

\* C12: GetAllValues(pattern) succeeds exactly when GetAll(pattern) does
\* and then returns the Value fields of GetAll's records in the same
\* order; when GetAll fails it returns the same error with an empty
\* sequence that is not nil.
C12_GetAllValuesProjects ==
    op.name = "GetAllValues" =>
        \A g \in GetAllReturns(m, op.arg) :
            IF g.err = nil
            THEN /\ ret.err = nil
                 /\ Len(ret.vs) = Len(g.ks)
                 /\ \A i \in 1..Len(g.ks) : ret.vs[i] = g.ks[i].Value
            ELSE /\ ret.err = g.err
                 /\ ret.vs = << >>
                 /\ ~ret.isNil

\* GetAllValues has returned three values, not all the same
C12_Witness ==
    /\ op.name = "GetAllValues"
    /\ ret.err = nil
    /\ Len(ret.vs) = 3
    /\ ret.vs[1] # ret.vs[2]

\* C13: Del(k) on a key that is absent leaves the whole store unchanged,
\* and so does a second Del(k) right after a first.
C13_DelAbsentNoOp ==
    [][ /\ op'.name = "Del" /\ op'.arg \notin DOMAIN m => m' = m
        /\ op.name = "Del" /\ op'.name = "Del" /\ op'.arg = op.arg
              => m' = m ]_vars

\* Del has returned without having found its key, in a store that holds
\* entries
C13_Witness ==
    /\ op.name = "Del"
    /\ ~hit
    /\ lastDel = op.arg
    /\ m # << >>

\* C14: after any sequence of New, Set and Del, every entry of the map
\* satisfies map[k].Key = k.
C14_KeyIsMapKey == \A k \in DOMAIN m : m[k].Key = k

\* Set has replaced an entry of a full map
C14_Witness ==
    /\ op.name = "Set"
    /\ hit
    /\ Cardinality(DOMAIN m) = MaxEntries

Reads ==
    { "Get", "GetValue", "GetAll", "GetAllValues", "List", "ListDir" }

\* C15: the read operations leave the mapping unchanged, when they succeed
\* and when they fail.
C15_ReadsKeepMap == [][ op'.name \in Reads => m' = m ]_vars

\* a Get has failed on a store that holds entries
C15_Witness ==
    /\ op.name = "Get"
    /\ ret.err = ErrNotExist
    /\ m # << >>

\* C16: GetValue(k) returns (v, nil) exactly when Get(k) returns
\* ({k, v}, nil), and ("", ErrNotExist) exactly when Get(k) fails with
\* ErrNotExist.
C16_GetValueAsGet ==
    op.name = "GetValue" =>
        LET g == GetFrom(m, op.arg)
        IN  /\ g.err = nil => ret.err = nil /\ ret.str = g.kv.Value
            /\ g.err = ErrNotExist => ret.err = ErrNotExist /\ ret.str = ""
            /\ g.err \in { nil, ErrNotExist }
            /\ ret.err = nil => last[op.arg] = ret.str
            /\ ret.err # nil => last[op.arg] = "none"

\* GetValue has returned the value "2"
C16_Witness ==
    /\ op.name = "GetValue"
    /\ ret.err = nil
    /\ ret.str = "2"

\* the key /ab/c
keyAbC == << "/", "a", "b", "/", "c" >>

\* C17: with the single key /ab/c stored, List("/a") returns the one
\* element sequence that holds the empty string, and ListDir("/a") returns
\* the same.
C17_LiteralPrefix ==
    op.name \in { "List", "ListDir" } /\ op.arg = dirA
      /\ DOMAIN m = { keyAbC } =>
        /\ ret.err = nil
        /\ ret.vs = << << >> >>

\* ListDir("/a") has returned on the store that holds /ab/c only
C17_Witness ==
    /\ op = Call("ListDir", dirA, "")
    /\ DOMAIN m = { keyAbC }
    /\ Len(ret.vs) = 1

\* C19: Set(k, v) and Del(k) affect key k only: the presence and the
\* record of every other key are the same after the call as before it.
C19_WritesTouchOneKey ==
    [][ op'.name \in { "Set", "Del" } =>
          \A j \in Keys \ { op'.arg } :
              /\ j \in DOMAIN m' <=> j \in DOMAIN m
              /\ j \in DOMAIN m => m'[j] = m[j] ]_vars

\* Set has added an entry to a map that held others
C19_Witness ==
    /\ op.name = "Set"
    /\ ~hit
    /\ Cardinality(DOMAIN m) = MaxEntries

\* what List(path) may return on the map mm, when it returns
ListReturns(mm, path) ==
    UNION { IF SlicePanics(Visit(mm, f), path) THEN {}
            ELSE { ListFrom(vs) : vs \in Orders(ListSet(Visit(mm, f), path)) } :
            f \in Orders(DOMAIN mm) }

\* C20: on every store state and path on which both calls return, every
\* element of ListDir(path) is an element of List(path), and both results
\* are strictly ascending, without duplicates.
C20_ListDirWithinList ==
    op.name \in { "List", "ListDir" } /\ ret.err = nil =>
        /\ Ascending(ret.vs)
        /\ op.name = "ListDir" =>
              \A l \in ListReturns(m, op.arg) :
                  Range(ret.vs) \subseteq Range(l.vs)

\* ListDir has returned two segments
C20_Witness ==
    /\ op.name = "ListDir"
    /\ ret.err = nil
    /\ Len(ret.vs) = 2

\* ------------------------------------------------------------------------
\* Goroutines calling the methods of one Store value concurrently.  Every
\* method has a value receiver (func (s Store) ...), so each call works on
\* its own copy of the Store struct: the copy's map header refers to the
\* one shared map, the copy's embedded RWMutex is a fresh copy of the
\* caller's, which no method ever locks.

GoKeys == { dirA, dirA \o << "/", "b" >> }
GoPatterns == { << "[" >>, dirA \o << "*", "/", "*" >> }
GoPaths == { dirA }

GoCalls ==
    { Call("Set", k, v) : k \in GoKeys, v \in Vals }
      \cup { Call(n, k, "") : n \in {"Del", "Get", "GetValue"}, k \in GoKeys }
      \cup { Call(n, x, "") : n \in {"GetAll", "GetAllValues"},
                              x \in GoPatterns }
      \cup { Call(n, x, "") : n \in {"List", "ListDir"}, x \in GoPaths }

Writes == { "Set", "Del" }
\* the multi-key reads whose snapshots are recorded
Snapshots == { "GetAll", "List", "ListDir" }
Lookups == { "Get", "GetValue" }
Globs == { "GetAll", "GetAllValues" }
Listings == { "List", "ListDir" }

\* some other goroutine is in the middle of a map assignment or delete
WriterBusy(p) == \E q \in Procs \ {p} : pc[q] = "writing"

\* what a map read that overlaps a map write may produce as a record
TornKVPairs ==
    { KVPair(k, v) : k \in GoKeys \cup { << >> }, v \in Vals \cup { "" } }

\* the call enters the method: the receiver s is copied; track says
\* whether the maps that exist during the call are recorded
Invoke(p, c, track) ==
    /\ ~crashed
    /\ pc[p] = "idle"
    /\ call' = [call EXCEPT ![p] = c]
    /\ mu' = [mu EXCEPT ![p] = RWMutex(FALSE, 0)]
    /\ pc' = [pc EXCEPT ![p] = IF c.name \in Writes THEN "lock" ELSE "rlock"]
    /\ res' = [res EXCEPT ![p] = NoRet]
    /\ snaps' = [snaps EXCEPT ![p] = IF track /\ c.name \in Snapshots
                                     THEN { m } ELSE {}]
    /\ UNCHANGED << m, crashed, seqVars, seen, todo, done >>

\* s.Lock()
Lock(p) ==
    /\ ~crashed
    /\ pc[p] = "lock"
    /\ ~mu[p].w /\ mu[p].r = 0
    /\ mu' = [mu EXCEPT ![p].w = TRUE]
    /\ pc' = [pc EXCEPT ![p] = "write"]
    /\ UNCHANGED << m, crashed, seqVars, call, seen, todo, done, res, snaps >>

\* s.RLock(); a range starts with the keys the map holds
RLock(p) ==
    /\ ~crashed
    /\ pc[p] = "rlock"
    /\ ~mu[p].w
    /\ mu' = [mu EXCEPT ![p].r = @ + 1]
    /\ pc' = [pc EXCEPT ![p] = IF call[p].name \in Lookups THEN "read"
                               ELSE "range"]
    /\ todo' = [todo EXCEPT ![p] = IF call[p].name \in Lookups THEN {}
                                   ELSE DOMAIN m]
    /\ UNCHANGED << m, crashed, seqVars, call, seen, done, res, snaps >>

\* s.m[key] = ... and delete(s.m, key) are not atomic: the write starts
WriteBegin(p) ==
    /\ ~crashed
    /\ pc[p] = "write"
    /\ pc' = [pc EXCEPT ![p] = "writing"]
    /\ UNCHANGED << m, crashed, seqVars, call, mu, seen, todo, done, res,
                 snaps >>

\* the write is complete
WriteEnd(p) ==
    /\ ~crashed
    /\ pc[p] = "writing"
    /\ m' = IF call[p].name = "Set"
            THEN SetMap(m, call[p].arg, call[p].val)
            ELSE DelMap(m, call[p].arg)
    /\ pc' = [pc EXCEPT ![p] = "unlock"]
    /\ snaps' = [q \in Procs |->
                   IF pc[q] # "idle" /\ snaps[q] # {}
                   THEN snaps[q] \cup { m' } ELSE snaps[q]]
    /\ UNCHANGED << crashed, seqVars, call, mu, seen, todo, done, res >>

\* s.Unlock() and the return of Set or Del
Unlock(p) ==
    /\ ~crashed
    /\ pc[p] = "unlock"
    /\ mu' = [mu EXCEPT ![p].w = FALSE]
    /\ pc' = [pc EXCEPT ![p] = "idle"]
    /\ UNCHANGED << m, crashed, seqVars, call, seen, todo, done, res, snaps >>

\* Get: kv, ok := s.m[key], while no write is under way
Read(p) ==
    /\ ~crashed
    /\ pc[p] = "read"
    /\ ~WriterBusy(p)
    /\ seen' = [seen EXCEPT ![p] = IF call[p].arg \in DOMAIN m
                                   THEN << m[call[p].arg] >> ELSE << >>]
    /\ pc' = [pc EXCEPT ![p] = "runlock"]
    /\ UNCHANGED << m, crashed, seqVars, call, mu, todo, done, res, snaps >>

\* Get: kv, ok := s.m[key] overlapping a write, a data race: the lookup
\* may miss, or produce any mix of old, new and zero words
TornRead(p) ==
    /\ ~crashed
    /\ pc[p] = "read"
    /\ WriterBusy(p)
    /\ \E got \in { << >> } \cup { << kv >> : kv \in TornKVPairs } :
          seen' = [seen EXCEPT ![p] = got]
    /\ pc' = [pc EXCEPT ![p] = "runlock"]
    /\ UNCHANGED << m, crashed, seqVars, call, mu, todo, done, res, snaps >>

\* the loop body is left early: GetAll returns the error of Match, List
\* and ListDir panic on strippedKey[1:]
LeavesLoop(c, kv) ==
    \/ c.name \in Globs /\ Match(c.arg, kv.Key).err # nil
    \/ c.name \in Listings /\ SlicePanics(<< kv >>, c.arg)

\* one iteration of for _, kv := range s.m, on the record kv of key k
RangeVisit(p, k, kv) ==
    /\ seen' = [seen EXCEPT ![p] = Append(@, kv)]
    /\ todo' = [todo EXCEPT ![p] = @ \ {k}]
    /\ done' = [done EXCEPT ![p] = @ \cup {k}]
    /\ pc' = [pc EXCEPT ![p] = IF LeavesLoop(call[p], kv) THEN "runlock"
                               ELSE "range"]

\* the range produces the next entry: one it had at its start, unless
\* deleted since, or one created since, which it may produce or skip
RangeNext(p) ==
    /\ ~crashed
    /\ pc[p] = "range"
    /\ ~WriterBusy(p)
    /\ \E k \in (todo[p] \cup DOMAIN m) \ done[p] :
          IF k \in DOMAIN m
          THEN RangeVisit(p, k, m[k])
          ELSE /\ todo' = [todo EXCEPT ![p] = @ \ {k}]
               /\ UNCHANGED << seen, done, pc >>
    /\ UNCHANGED << m, crashed, seqVars, call, mu, res, snaps >>

\* the same overlapping a write, a data race
TornRangeNext(p) ==
    /\ ~crashed
    /\ pc[p] = "range"
    /\ WriterBusy(p)
    /\ \E k \in (todo[p] \cup DOMAIN m) \ done[p], kv \in TornKVPairs :
          RangeVisit(p, k, kv)
    /\ UNCHANGED << m, crashed, seqVars, call, mu, res, snaps >>

\* the range is over
RangeDone(p) ==
    /\ ~crashed
    /\ pc[p] = "range"
    /\ todo[p] = {}
    /\ pc' = [pc EXCEPT ![p] = "runlock"]
    /\ UNCHANGED << m, crashed, seqVars, call, mu, seen, todo, done, res,
                 snaps >>

\* Get, given the lookup it made
GetSeen(c, got) ==
    GetFrom(IF got = << >> THEN << >> ELSE [k \in {c.arg} |-> got[1]],
            c.arg)

\* s.RUnlock() and the return of a call that returns
RUnlock(p) ==
    /\ ~crashed
    /\ pc[p] = "runlock"
    /\ ~(call[p].name \in Listings /\ SlicePanics(seen[p], call[p].arg))
    /\ mu' = [mu EXCEPT ![p].r = @ - 1]
    /\ pc' = [pc EXCEPT ![p] = "idle"]
    /\ \E r \in
          CASE call[p].name = "Get" -> { GetSeen(call[p], seen[p]) }
            [] call[p].name = "GetValue" ->
                 { GetValueFrom(GetSeen(call[p], seen[p])) }
            [] call[p].name = "GetAll" ->
                 { GetAllFrom(seen[p], call[p].arg) }
            [] call[p].name = "GetAllValues" ->
                 { GetAllValuesFrom(GetAllFrom(seen[p], call[p].arg)) }
            [] call[p].name = "List" ->
                 { ListFrom(vs) :
                     vs \in Orders(ListSet(seen[p], call[p].arg)) }
            [] call[p].name = "ListDir" ->
                 { ListFrom(vs) :
                     vs \in Orders(ListDirSet(seen[p], call[p].arg)) } :
          res' = [res EXCEPT ![p] = r]
    /\ seen' = [seen EXCEPT ![p] = << >>]
    /\ todo' = [todo EXCEPT ![p] = {}]
    /\ done' = [done EXCEPT ![p] = {}]
    /\ UNCHANGED << m, crashed, seqVars, call, snaps >>

\* List and ListDir: the panic runs the deferred s.RUnlock() and, with no
\* recover in the package, ends the process
PanicExit(p) ==
    /\ ~crashed
    /\ pc[p] = "runlock"
    /\ call[p].name \in Listings /\ SlicePanics(seen[p], call[p].arg)
    /\ mu' = [mu EXCEPT ![p].r = @ - 1]
    /\ pc' = [pc EXCEPT ![p] = "panicked"]
    /\ res' = [res EXCEPT ![p] = Panicked]
    /\ crashed' = TRUE
    /\ UNCHANGED << m, seqVars, call, seen, todo, done, snaps >>

\* the run time notices a map access overlapping a map write: fatal
\* error: concurrent map writes, or concurrent map read and map write
Fatal(p) ==
    /\ ~crashed
    /\ pc[p] \in { "write", "writing", "read", "range" }
    /\ WriterBusy(p)
    /\ pc' = [pc EXCEPT ![p] = "fatal"]
    /\ crashed' = TRUE
    /\ UNCHANGED << m, seqVars, call, mu, seen, todo, done, res, snaps >>

\* the steps of goroutine p inside a call
Step(p) ==
    \/ Lock(p)
    \/ RLock(p)
    \/ WriteBegin(p)
    \/ WriteEnd(p)
    \/ Unlock(p)
    \/ Read(p)
    \/ TornRead(p)
    \/ RangeNext(p)
    \/ TornRangeNext(p)
    \/ RangeDone(p)
    \/ RUnlock(p)
    \/ PanicExit(p)
    \/ Fatal(p)

GoNext ==
    \/ \E p \in Procs, c \in GoCalls : Invoke(p, c, FALSE)
    \/ \E p \in Procs : Lock(p)
    \/ \E p \in Procs : RLock(p)
    \/ \E p \in Procs : WriteBegin(p)
    \/ \E p \in Procs : WriteEnd(p)
    \/ \E p \in Procs : Unlock(p)
    \/ \E p \in Procs : Read(p)
    \/ \E p \in Procs : TornRead(p)
    \/ \E p \in Procs : RangeNext(p)
    \/ \E p \in Procs : TornRangeNext(p)
    \/ \E p \in Procs : RangeDone(p)
    \/ \E p \in Procs : RUnlock(p)
    \/ \E p \in Procs : PanicExit(p)
    \/ \E p \in Procs : Fatal(p)

\* goroutines calling at will
GoSpec == Init /\ [][GoNext]_vars

\* the scheduler lets every goroutine that can take a step take one
FairSpec == GoSpec /\ \A p \in Procs : WF_vars(Step(p))

\* Goroutines writing two sibling keys and reading both with GetAll and
\* List, the maps that exist during each read being recorded
keyAB == dirA \o << "/", "b" >>
keyAC == dirA \o << "/", "c" >>

SnapCalls ==
    { Call("Set", k, "1") : k \in { keyAB, keyAC } }
      \cup { Call("Del", k, "") : k \in { keyAB, keyAC } }
      \cup { Call("GetAll", dirA \o << "*", "/", "*" >>, ""),
             Call("List", dirA, "") }

SnapNext ==
    \/ \E p \in Procs, c \in SnapCalls : Invoke(p, c, TRUE)
    \/ \E p \in Procs : Lock(p)
    \/ \E p \in Procs : RLock(p)
    \/ \E p \in Procs : WriteBegin(p)
    \/ \E p \in Procs : WriteEnd(p)
    \/ \E p \in Procs : Unlock(p)
    \/ \E p \in Procs : RangeNext(p)
    \/ \E p \in Procs : TornRangeNext(p)
    \/ \E p \in Procs : RangeDone(p)
    \/ \E p \in Procs : RUnlock(p)
    \/ \E p \in Procs : PanicExit(p)
    \/ \E p \in Procs : Fatal(p)

SnapSpec == Init /\ [][SnapNext]_vars

\* ------------------------------------------------------------------------
\* Claims about goroutines

\* between Lock and Unlock in Set or Del
InWriteSection(p) == pc[p] \in { "write", "writing", "unlock" }

\* between RLock and RUnlock in Get, GetAll, List or ListDir
InReadSection(p) == pc[p] \in { "read", "range", "runlock" }

\* C1: while one goroutine is inside the map-mutating section of Set or
\* Del, no other goroutine is inside the map-accessing section of any
\* operation on the same Store value.
C1_WritersExclude ==
    \A p, q \in Procs :
        p # q /\ InWriteSection(p) =>
            ~InWriteSection(q) /\ ~InReadSection(q)

\* C8: every record that Get(k) returns is {k, v} for a value v that
\* callers write, never a mix of two writes and never a record whose Key
\* differs from k.
C8_NoTornRead ==
    \A p \in Procs :
        pc[p] = "idle" /\ call[p].name = "Get" /\ res[p].err = nil =>
            /\ res[p].kv.Key = call[p].arg
            /\ res[p].kv.Value \in Vals

\* what ListDir(path) may return on the map mm, when it returns
ListDirReturns(mm, path) ==
    UNION { IF SlicePanics(Visit(mm, f), path) THEN {}
            ELSE { ListFrom(vs) :
                     vs \in Orders(ListDirSet(Visit(mm, f), path)) } :
            f \in Orders(DOMAIN mm) }

\* what the multi-key read c may return on the map mm
Returns(c, mm) ==
    CASE c.name = "GetAll" -> GetAllReturns(mm, c.arg)
      [] c.name = "List" -> ListReturns(mm, c.arg)
      [] c.name = "ListDir" -> ListDirReturns(mm, c.arg)

\* C18: the result of a GetAll, List or ListDir call is the result
\* computed from one single state of the map that existed at some instant
\* between the call's invocation and its return.
C18_AtomicSnapshot ==
    \A p \in Procs :
        pc[p] = "idle" /\ snaps[p] # {} =>
            res[p] \in UNION { Returns(call[p], mm) : mm \in snaps[p] }

\* C9: under fair scheduling every invoked operation eventually returns.
C9_EveryCallReturns ==
    \A p \in Procs : (pc[p] # "idle") ~> (pc[p] = "idle")

====
